---- MODULE Spec2Model ----
(***************************************************************************)
(* Critique compilation and the generate -> describe -> critique -> refine *)
(* loop of the ad critique backend.                                        *)
(*                                                                         *)
(* Numbers.  Every score, confidence and threshold of the program is a     *)
(* float in [0,1].  The model keeps them as exact fixed-point integers in  *)
(* which 1.0 is One = 12000: with inputs given in hundredths, the two-way  *)
(* brand blend (/2), the fallback's mean of sharpness and composition      *)
(* (/2), the three-way quality blend (/3), the mean of four confidences    *)
(* (/4) and the weighted sum (x0.30, x0.25, x0.20) of blended scores are   *)
(* all exact integers, so no comparison of the model is decided by         *)
(* rounding.                                                               *)
(***************************************************************************)
EXTENDS Integers, Sequences, FiniteSets, TLC

One == 120 * 100
H(h) == h * (One \div 100)          \* h hundredths: H(75) is 0.75
M(m) == (m * One) \div 1000         \* m thousandths: M(649) is 0.649

\* Python's None / an unbound local is the empty tuple, a value x is <<x>>.
None == << >>
Some(x) == << x >>
IsSome(o) == o # << >>
Val(o) == o[1]

\* A key the oracle payload does not hold; dict.get(key, default).
Absent == 0 - 1
Get(v, default) == IF v = Absent THEN default ELSE v

\* An entry of an issue list.  kind "oracle": a string of the oracle payload;
\* "fallback": a string of the fallback critique; "watermark": 'Watermark
\* detected'; "low_confidence": the manual-review warning, which carries the
\* formatted confidence and the names of the low-confidence dimensions.
Issue(kind, about) == [kind |-> kind, about |-> about, pct |-> 0, areas |-> << >>]

\* f"{x:.0%}": x as a whole percentage, a tie going to the even neighbour.
Percent(x) ==
    LET q == (100 * x) \div One
        r == (100 * x) % One
    IN  IF 2 * r > One THEN q + 1
        ELSE IF 2 * r < One THEN q
        ELSE q + (q % 2)

(***************************************************************************)
(* Bounds of the model.                                                    *)
(***************************************************************************)
MaxIter == 3                         \* largest max_iterations explored

(***************************************************************************)
(* config.py: Settings, the per-dimension deployment minimums.             *)
(***************************************************************************)
min_brand_score == H(70)
min_quality_score == H(60)
min_safety_score == H(90)
min_clarity_score == H(70)

(***************************************************************************)
(* critique_engine.py: CritiqueEngine._compile_critique and helpers.       *)
(***************************************************************************)
\* _get_score_level
ScoreLevel(score) ==
    IF score >= H(85) THEN "excellent"
    ELSE IF score >= H(70) THEN "good"
    ELSE IF score >= H(50) THEN "fair"
    ELSE "poor"

\* schemas.py: Field(ge=0.0, le=1.0) of CritiqueScore.score and
\* AdCritique.overall_score; a value outside makes the constructor raise.
InUnitRange(x) == 0 <= x /\ x <= One

\* lines 491-494: the four dimension confidences, 0.5 when absent.
DimConfidenceTrusting(dim) == Get(dim.confidence, H(90))
DimConfidence(dim) == Get(dim.confidence, H(50))

\* lines 495-497: the oracle's overall_confidence, else the unweighted mean.
OverallConfidenceMeanOnly(ai) ==
    (DimConfidence(ai.brand_alignment) + DimConfidence(ai.visual_quality)
     + DimConfidence(ai.message_clarity) + DimConfidence(ai.safety_ethics)) \div 4
OverallConfidence(ai) ==
    Get(ai.overall_confidence,
        (DimConfidence(ai.brand_alignment) + DimConfidence(ai.visual_quality)
         + DimConfidence(ai.message_clarity) + DimConfidence(ai.safety_ethics)) \div 4)

\* line 500
NeedsManualReviewLE(overall_confidence) == overall_confidence <= H(65)
NeedsManualReview(overall_confidence) == overall_confidence < H(65)

\* lines 501-509: the dimensions whose own confidence is below 0.7, in order.
LowConfidenceAreas(ai) ==
    (IF DimConfidence(ai.brand_alignment) < H(70) THEN <<"brand_alignment">> ELSE << >>)
    \o (IF DimConfidence(ai.visual_quality) < H(70) THEN <<"visual_quality">> ELSE << >>)
    \o (IF DimConfidence(ai.message_clarity) < H(70) THEN <<"message_clarity">> ELSE << >>)
    \o (IF DimConfidence(ai.safety_ethics) < H(70) THEN <<"safety_ethics">> ELSE << >>)

\* lines 512-514: brand score, blended with the colour match when a kit is given.
BrandScoreOracleOnly(ai, brand_kit, color_analysis) ==
    Get(ai.brand_alignment.score, H(50))
BrandScore(ai, brand_kit, color_analysis) ==
    IF IsSome(brand_kit)
    THEN (Get(ai.brand_alignment.score, H(50)) + color_analysis.brand_color_match) \div 2
    ELSE Get(ai.brand_alignment.score, H(50))

\* lines 517-518: three-way blend of oracle score, sharpness and composition.
QualityScore(ai, visual_analysis) ==
    (Get(ai.visual_quality.score, H(50)) + visual_analysis.sharpness
     + visual_analysis.composition) \div 3

\* lines 555-560: the weighted sum 0.3, 0.25, 0.25, 0.20.
OverallScoreHeavySafety(brand, quality, clarity, safety) ==
    (30 * brand + 25 * quality + 25 * clarity + 25 * safety) \div 100
OverallScore(brand, quality, clarity, safety) ==
    (30 * brand + 25 * quality + 25 * clarity + 20 * safety) \div 100

\* lines 563-568: the deployment gate.
ReadyToDeployNoSafety(brand, quality, clarity, safety) ==
    /\ brand >= min_brand_score
    /\ quality >= min_quality_score
    /\ clarity >= min_clarity_score
ReadyToDeploy(brand, quality, clarity, safety) ==
    /\ brand >= min_brand_score
    /\ quality >= min_quality_score
    /\ safety >= min_safety_score
    /\ clarity >= min_clarity_score

\* lines 525, 533-534, 542, 550: the issue lists of the four dimensions.
VisualIssuesAsGiven(ai, visual_analysis) == ai.visual_quality.issues
VisualIssues(ai, visual_analysis) ==
    ai.visual_quality.issues
    \o (IF visual_analysis.has_watermark
        THEN << Issue("watermark", "visual_quality") >> ELSE << >>)

\* line 648
AllIssues(ai, visual_analysis) ==
    ai.brand_alignment.issues \o VisualIssues(ai, visual_analysis)
    \o ai.message_clarity.issues \o ai.safety_ethics.issues

\* lines 655-657: the warning put in front of the issue list.
ManualReviewWarning(overall_confidence, low_confidence_areas) ==
    [kind |-> "low_confidence", about |-> "",
     pct |-> Percent(overall_confidence), areas |-> low_confidence_areas]

WithWarningLast(needs_manual_review, warning, issues) ==
    IF needs_manual_review THEN Append(issues, warning) ELSE issues
WithWarning(needs_manual_review, warning, issues) ==
    IF needs_manual_review THEN << warning >> \o issues ELSE issues

\* _compile_critique as a whole.  None when a pydantic constructor raises
\* (a dimension score outside [0,1]); otherwise the critique_result dict.
\* critique_id is a fresh uuid4: the caller passes a value unique to the call.
CompileCritique(critique_id, brand_kit, visual_analysis, color_analysis, ai_critique) ==
    LET brand == BrandScore(ai_critique, brand_kit, color_analysis)
        quality == QualityScore(ai_critique, visual_analysis)
        clarity == Get(ai_critique.message_clarity.score, H(50))
        safety == Get(ai_critique.safety_ethics.score, H(50))
        overall == OverallScore(brand, quality, clarity, safety)
        conf == OverallConfidence(ai_critique)
        ready == ReadyToDeploy(brand, quality, clarity, safety)
    IN  IF ~(InUnitRange(brand) /\ InUnitRange(quality) /\ InUnitRange(clarity)
             /\ InUnitRange(safety) /\ InUnitRange(overall))
        THEN None
        ELSE Some([critique_id |-> critique_id,
                   overall_score |-> overall,
                   overall_level |-> ScoreLevel(overall),
                   ready_to_deploy |-> ready,
                   scores |-> [brand_alignment |-> brand,
                               visual_quality |-> quality,
                               message_clarity |-> clarity,
                               safety |-> safety],
                   confidence_scores |-> [brand_alignment |-> DimConfidence(ai_critique.brand_alignment),
                                          visual_quality |-> DimConfidence(ai_critique.visual_quality),
                                          message_clarity |-> DimConfidence(ai_critique.message_clarity),
                                          safety |-> DimConfidence(ai_critique.safety_ethics),
                                          overall |-> conf],
                   needs_manual_review |-> NeedsManualReview(conf),
                   low_confidence_areas |-> LowConfidenceAreas(ai_critique),
                   feedback |-> [brand_alignment |-> [issues |-> ai_critique.brand_alignment.issues],
                                 visual_quality |-> [issues |-> VisualIssues(ai_critique, visual_analysis)],
                                 message_clarity |-> [issues |-> ai_critique.message_clarity.issues],
                                 safety_ethics |-> [issues |-> ai_critique.safety_ethics.issues]],
                   issues |-> WithWarning(NeedsManualReview(conf),
                                          ManualReviewWarning(conf, LowConfidenceAreas(ai_critique)),
                                          AllIssues(ai_critique, visual_analysis)),
                   detected_elements |-> [ai_analysis_available |-> ai_critique.detected_elements.ai_analysis_available,
                                          color_analysis |-> color_analysis,
                                          visual_analysis |-> visual_analysis],
                   approval_status |-> IF ready THEN "approved" ELSE "pending"])

(***************************************************************************)
(* color_analysis.py: ColorMatcher.analyze_colors, lines 39-44.  The match *)
(* of the image against the palette is an input; it counts only when a     *)
(* brand kit with primary colours is given, and is 0.0 otherwise.          *)
(***************************************************************************)
AnalyzeColors(raw_match, brand_kit) ==
    [brand_color_match |->
        IF IsSome(brand_kit) /\ Val(brand_kit).has_colors THEN raw_match ELSE 0]

(***************************************************************************)
(* critique_engine.py: the oracle call and its fallback.                   *)
(***************************************************************************)
\* _get_fallback_critique, lines 406-470.  image is the VisualAnalysis of the
\* image when the call passes image_path, None when it passes nothing.  Line
\* 423 sets visual_quality to the mean of sharpness and composition; line 426
\* reads visual_analysis.contrast, a field VisualAnalysis (schemas.py lines
\* 97-104) does not have: the AttributeError is caught at line 436, so
\* message_clarity keeps its initial 0.5 and no feedback note is added.
\* The payload has no confidence and no overall_confidence.
FallbackCritique(image) ==
    LET quality_score == IF IsSome(image)
                         THEN (Val(image).sharpness + Val(image).composition) \div 2
                         ELSE H(50)
        clarity_score == H(50)
    IN  [brand_alignment |-> [score |-> H(50), confidence |-> Absent,
                              issues |-> << Issue("fallback", "brand_alignment") >>],
         visual_quality |-> [score |-> quality_score, confidence |-> Absent,
                             issues |-> << >>],
         message_clarity |-> [score |-> clarity_score, confidence |-> Absent,
                              issues |-> IF clarity_score < H(60)
                                         THEN << Issue("fallback", "message_clarity") >>
                                         ELSE << >>],
         safety_ethics |-> [score |-> H(70), confidence |-> Absent,
                            issues |-> << Issue("fallback", "safety_ethics") >>],
         overall_confidence |-> Absent,
         detected_elements |-> [ai_analysis_available |-> "false"]]

\* _parse_gemini_response, lines 388-404: the parsed payload, or on a
\* JSONDecodeError the fallback critique, called without image_path.
ParseGeminiResponse(oracle) ==
    IF oracle.kind = "not_json" THEN FallbackCritique(None) ELSE oracle.payload

\* _get_gemini_critique, lines 98-126.  oracle.kind is "json" (the response
\* text parses to the payload), "not_json" (it does not parse), "raised"
\* (generate_content raised) or "no_model" (self.model is None, so line 117
\* raises AttributeError); the except of line 124 returns the fallback
\* critique of the image.
GeminiCritiqueKeepsPayload(oracle, visual_analysis) == oracle.payload
GeminiCritique(oracle, visual_analysis) ==
    IF oracle.kind \in {"raised", "no_model"}
    THEN FallbackCritique(Some(visual_analysis))
    ELSE ParseGeminiResponse(oracle)

(***************************************************************************)
(* descriptor_agent.py: DescriptorAgent.describe_ad, lines 32-63.          *)
(* oracle is "json", "json_not_object" (valid JSON that is no object: line *)
(* 172 raises TypeError inside the try of line 45), "not_json", "raised"   *)
(* or "no_model"; image_readable tells whether _fallback_description can   *)
(* open the image.  The result is the description's "source".              *)
(***************************************************************************)
FallbackDescription(image_readable) ==
    IF image_readable THEN "fallback" ELSE "error"

DescribeAd(oracle, image_readable) ==
    IF oracle = "no_model" THEN FallbackDescription(image_readable)
    ELSE IF ~image_readable THEN FallbackDescription(image_readable)
    ELSE IF oracle = "json" THEN "gemini_vision"
    ELSE IF oracle = "not_json" THEN "gemini_vision_raw"
    ELSE FallbackDescription(image_readable)

(***************************************************************************)
(* refinement_agent.py                                                     *)
(***************************************************************************)
\* _fallback_refinement: the rule-based prompt.  A prompt is the sequence of
\* its phrases; each directive is one phrase appended to the original.
FallbackRefinement(original_prompt, critique_result) ==
    LET scores == critique_result.scores
        p1 == IF scores.brand_alignment < H(70) THEN <<"brand">> ELSE << >>
        p2 == IF scores.visual_quality < H(70) THEN <<"visual">> ELSE << >>
        p3 == IF scores.message_clarity < H(70) THEN <<"clarity">> ELSE << >>
        p4 == IF scores.safety < H(90) THEN <<"safety">> ELSE << >>
        f1 == IF scores.brand_alignment < H(70) THEN <<"brand_alignment">> ELSE << >>
        f2 == IF scores.visual_quality < H(70) THEN <<"visual_quality">> ELSE << >>
        f3 == IF scores.message_clarity < H(70) THEN <<"message_clarity">> ELSE << >>
        f4 == IF scores.safety < H(70) THEN <<"safety">> ELSE << >>
    IN  [source |-> "fallback_rules",
         improved_prompt |-> Some(original_prompt \o p1 \o p2 \o p3 \o p4),
         focus_areas |-> f1 \o f2 \o f3 \o f4]

\* generate_improved_prompt: the rule-based fallback (no model, or the oracle
\* call raised), the oracle's rewritten prompt (some prompt other than the
\* original), or an oracle answer that parses but holds no improved_prompt.
RefinementOutcomes(original_prompt, critique_result) ==
    { FallbackRefinement(original_prompt, critique_result),
      [source |-> "gemini_refinement",
       improved_prompt |-> Some(original_prompt \o <<"rewritten">>),
       focus_areas |-> << >>],
      [source |-> "gemini_refinement",
       improved_prompt |-> None,
       focus_areas |-> << >>] }

(***************************************************************************)
(* State.                                                                  *)
(***************************************************************************)
VARIABLES
    \* MultiAgentOrchestrator.__init__ and the arguments of generate_and_refine
    max_iterations, score_threshold, brand_kit_id, brand_kit_data,
    \* locals of generate_and_refine (None: the name is not bound yet)
    pc, iteration, iterations, iteration_result, current_prompt,
    best_ad, best_score, ad_path, description, critique, overall_score,
    \* the returned dict
    result,
    \* history: what the external calls of each iteration did (no program state)
    calls,
    \* a cancellation of the run requested by its caller: None, or where the
    \* run stood and what it had found when the request was made
    cancel,
    \* one call of critique_ad or describe_ad: its arguments, the payload
    \* _get_gemini_critique returned, and the result
    cq_pc, cq_in, cq_ai, cq_out,
    \* one request to an endpoint of api/critique.py or api/multi_agent.py:
    \* the request, the response, and (history) the critiques and workflow
    \* runs the handler started
    api_pc, api_req, api_resp, api_ran,
    \* api/approval.py: the files of APPROVALS_DIR by ad id, (history) the
    \* calls made so far, and the response to the last call
    approvals, approval_log, approval_resp

orch_vars == << max_iterations, score_threshold, brand_kit_id, brand_kit_data,
                pc, iteration, iterations, iteration_result, current_prompt,
                best_ad, best_score, ad_path, description, critique,
                overall_score, result, calls, cancel >>
cq_vars == << cq_pc, cq_in, cq_ai, cq_out >>
api_vars == << api_pc, api_req, api_resp, api_ran >>
approval_vars == << approvals, approval_log, approval_resp >>
vars == << orch_vars, cq_vars, api_vars, approval_vars >>

(***************************************************************************)
(* Inputs.                                                                 *)
(***************************************************************************)
TheBrandKit == [brand_id |-> "b1", has_colors |-> TRUE]
Dim(score, confidence) == [score |-> score, confidence |-> confidence, issues |-> << >>]

\* the dimension with one issue string of the oracle
WithIssue(dim, about) == [dim EXCEPT !.issues = << Issue("oracle", about) >>]

\* the elements the oracle reports: no ai_analysis_available key among them
OracleElements == [ai_analysis_available |-> "absent"]

\* a response whose text parses to the payload
Json(payload) == [kind |-> "json", payload |-> payload]

\* the JSON object {}
EmptyPayload ==
    [brand_alignment |-> Dim(Absent, Absent), visual_quality |-> Dim(Absent, Absent),
     message_clarity |-> Dim(Absent, Absent), safety_ethics |-> Dim(Absent, Absent),
     overall_confidence |-> Absent, detected_elements |-> OracleElements]

\* an oracle call that yields no payload
OracleFailure(kind) == [kind |-> kind, payload |-> EmptyPayload]
OracleFailures == { OracleFailure(k) : k \in {"not_json", "raised", "no_model"} }

\* A critique whose oracle, sharpness, composition and colour match all sit at
\* x hundredths, so that its overall score is x hundredths too.
UniformInput(x) ==
    [visual_analysis |-> [sharpness |-> H(x), composition |-> H(x), has_watermark |-> FALSE],
     raw_match |-> H(x),
     oracle |-> Json([brand_alignment |-> Dim(H(x), H(80)),
                      visual_quality |-> Dim(H(x), H(80)),
                      message_clarity |-> Dim(H(x), H(80)),
                      safety_ethics |-> Dim(H(x), H(80)),
                      overall_confidence |-> Absent,
                      detected_elements |-> OracleElements])]

\* What the critic sees in a run of the loop; 120 is an oracle score outside
\* [0,1], which makes critique_ad raise.
OrchLevels == {40, 80, 90, 120}
Thresholds == {H(0), H(75), H(95)}
SeedPrompt == <<"seed">>

\* a response whose text parses to JSON that is no object (a list, a string)
JsonNotObject == [kind |-> "json_not_object", payload |-> EmptyPayload]

\* what _get_gemini_critique hands to _compile_critique: the payload dict, or
\* None for a parsed value that is no dict.
AiCritique(inp) ==
    IF inp.oracle.kind = "json_not_object" THEN None
    ELSE Some(GeminiCritique(inp.oracle, inp.visual_analysis))

\* critique_ad: analysis, oracle payload, compilation (lines 48-84).  On a
\* parsed value that is no dict, line 485 (ai_critique.get) raises
\* AttributeError and critique_ad raises.
CritiqueAd(critique_id, brand_kit, inp) ==
    IF ~IsSome(AiCritique(inp)) THEN None
    ELSE CompileCritique(critique_id, brand_kit, inp.visual_analysis,
                         AnalyzeColors(inp.raw_match, brand_kit),
                         Val(AiCritique(inp)))

(***************************************************************************)
(* multi_agent_orchestrator.py: MultiAgentOrchestrator.generate_and_refine *)
(***************************************************************************)
NewIterationResult ==
    [iteration |-> iteration, prompt |-> current_prompt,
     generation |-> None, description |-> None, description_error |-> FALSE,
     critique |-> None, critique_error |-> FALSE, overall_score |-> None,
     refinement |-> None, refinement_error |-> FALSE,
     status |-> "", reason |-> ""]

\* the calls of an iteration: generated is "ok", "failed" or "raised";
\* described and critiqued are "none", "ok" or "raised"; returned is the
\* overall_score critique_ad returned.
NewCalls(generated) ==
    [generated |-> generated, described |-> "none", critiqued |-> "none", returned |-> Absent]

CqIdle == cq_pc = "idle" /\ cq_in = None /\ cq_ai = None /\ cq_out = None

\* no request to an endpoint is being served
ApiIdle == api_pc = "idle" /\ api_req = None /\ api_resp = None /\ api_ran = << >>

\* the ad ids approval requests name
AdIds == {"ad1", "ad2"}

\* APPROVALS_DIR holds no file, and no call was made
ApprovalIdle ==
    /\ approvals = [a \in AdIds |-> None]
    /\ approval_log = << >>
    /\ approval_resp = None

\* lines 81-88, with the arguments as api/multi_agent.py lines 67-95 passes
\* them: a brand kit id together with the kit it names, or neither.
Init ==
    /\ max_iterations \in 1..MaxIter
    /\ score_threshold \in Thresholds
    /\ \E b \in {None, Some(TheBrandKit)} :
          /\ brand_kit_data = b
          /\ brand_kit_id = IF IsSome(b) THEN Some(Val(b).brand_id) ELSE None
    /\ pc = "generate"
    /\ iteration = 1
    /\ iterations = << >>
    /\ iteration_result = None
    /\ current_prompt = SeedPrompt
    /\ best_ad = None
    /\ best_score = 0
    /\ ad_path = None
    /\ description = None
    /\ critique = None
    /\ overall_score = None
    /\ result = None
    /\ calls = << >>
    /\ cancel = None
    /\ CqIdle
    /\ ApiIdle
    /\ ApprovalIdle

\* schemas.py: GenerateAdRequest.brand_id is a required str, so building the
\* request with brand_id=None raises inside the try of step 1.
RequestIsValid == IsSome(brand_kit_id)

\* Step 1, lines 94-127: generation succeeded.
GenerateOk ==
    /\ pc = "generate"
    /\ RequestIsValid
    /\ iteration_result' = Some([NewIterationResult EXCEPT
                                   !.generation = Some([success |-> TRUE, image_path |-> iteration])])
    /\ ad_path' = Some(iteration)
    /\ calls' = Append(calls, NewCalls("ok"))
    /\ pc' = "describe"
    /\ UNCHANGED << max_iterations, score_threshold, brand_kit_id, brand_kit_data,
                    iteration, iterations, current_prompt, best_ad, best_score,
                    description, critique, overall_score, result, cq_vars, cancel, api_vars, approval_vars >>

\* lines 121-125: the service returned success=false; break.
GenerateFailed ==
    /\ pc = "generate"
    /\ RequestIsValid
    /\ LET r == [NewIterationResult EXCEPT
                    !.generation = Some([success |-> FALSE, image_path |-> 0]),
                    !.status = "generation_failed"]
       IN  /\ iteration_result' = Some(r)
           /\ iterations' = Append(iterations, r)
    /\ calls' = Append(calls, NewCalls("failed"))
    /\ pc' = "finish"
    /\ UNCHANGED << max_iterations, score_threshold, brand_kit_id, brand_kit_data,
                    iteration, current_prompt, best_ad, best_score, ad_path,
                    description, critique, overall_score, result, cq_vars, cancel, api_vars, approval_vars >>

\* lines 129-134: the request or the service raised; break.
GenerateError ==
    /\ pc = "generate"
    /\ LET r == [NewIterationResult EXCEPT
                    !.generation = Some([success |-> FALSE, image_path |-> 0]),
                    !.status = "generation_error"]
       IN  /\ iteration_result' = Some(r)
           /\ iterations' = Append(iterations, r)
    /\ calls' = Append(calls, NewCalls("raised"))
    /\ pc' = "finish"
    /\ UNCHANGED << max_iterations, score_threshold, brand_kit_id, brand_kit_data,
                    iteration, current_prompt, best_ad, best_score, ad_path,
                    description, critique, overall_score, result, cq_vars, cancel, api_vars, approval_vars >>

\* Step 2, lines 138-140: describe_ad returned.
DescribeOk ==
    /\ pc = "describe"
    /\ description' = Some([iteration |-> iteration])
    /\ iteration_result' = Some([Val(iteration_result) EXCEPT
                                   !.description = Some([iteration |-> iteration])])
    /\ calls' = [calls EXCEPT ![iteration].described = "ok"]
    /\ pc' = "critique"
    /\ UNCHANGED << max_iterations, score_threshold, brand_kit_id, brand_kit_data,
                    iteration, iterations, current_prompt, best_ad, best_score,
                    ad_path, critique, overall_score, result, cq_vars, cancel, api_vars, approval_vars >>

\* lines 141-143: describe_ad raised; the local `description` is not assigned.
DescribeError ==
    /\ pc = "describe"
    /\ iteration_result' = Some([Val(iteration_result) EXCEPT !.description_error = TRUE])
    /\ calls' = [calls EXCEPT ![iteration].described = "raised"]
    /\ pc' = "critique"
    /\ UNCHANGED << max_iterations, score_threshold, brand_kit_id, brand_kit_data,
                    iteration, iterations, current_prompt, best_ad, best_score,
                    ad_path, description, critique, overall_score, result, cq_vars, cancel, api_vars, approval_vars >>

\* line 160: a candidate replaces the best one.
IsBetterOrTie(score, best) == score >= best
IsBetter(score, best) == score > best

\* lines 171-175: the except branch of step 3.
CritiqueFailedRecordNeutral(r) ==
    [r EXCEPT !.critique = None, !.critique_error = TRUE, !.overall_score = Some(H(50))]
CritiqueFailedRecord(r) ==
    [r EXCEPT !.critique = None, !.critique_error = TRUE, !.overall_score = Some(0)]

\* Step 3, lines 147-175.  critique_ad returns c (None: it raised).  Line 161
\* assigns best_score before line 162 builds the best_ad dict, whose
\* "description": description raises NameError while no describe_ad call of
\* the run has returned yet; the except branch then zeroes the score.
CritiqueStep ==
    /\ pc = "critique"
    /\ \E x \in OrchLevels :
        LET c == CritiqueAd(iteration, brand_kit_data, UniformInput(x))
            r == Val(iteration_result)
        IN  IF ~IsSome(c)
            THEN /\ iteration_result' = Some(CritiqueFailedRecord(r))
                 /\ overall_score' = Some(0)
                 /\ calls' = [calls EXCEPT ![iteration].critiqued = "raised"]
                 /\ UNCHANGED << critique, best_ad, best_score >>
            ELSE LET score == Val(c).overall_score
                 IN  /\ critique' = c
                     /\ calls' = [calls EXCEPT ![iteration].critiqued = "ok",
                                               ![iteration].returned = score]
                     /\ IF IsBetter(score, best_score)
                        THEN /\ best_score' = score
                             /\ IF IsSome(description)
                                THEN /\ best_ad' = Some([iteration |-> iteration,
                                                         image_path |-> Val(ad_path),
                                                         score |-> score,
                                                         critique |-> Val(c),
                                                         description |-> Val(description),
                                                         prompt |-> current_prompt])
                                     /\ iteration_result' = Some([r EXCEPT !.critique = c,
                                                                    !.overall_score = Some(score)])
                                     /\ overall_score' = Some(score)
                                ELSE /\ best_ad' = best_ad
                                     /\ iteration_result' = Some(CritiqueFailedRecord(r))
                                     /\ overall_score' = Some(0)
                        ELSE /\ UNCHANGED << best_ad, best_score >>
                             /\ iteration_result' = Some([r EXCEPT !.critique = c,
                                                            !.overall_score = Some(score)])
                             /\ overall_score' = Some(score)
    /\ pc' = "decide"
    /\ UNCHANGED << max_iterations, score_threshold, brand_kit_id, brand_kit_data,
                    iteration, iterations, current_prompt, ad_path, description,
                    result, cq_vars, cancel, api_vars, approval_vars >>

\* line 178
ThresholdMet(score, threshold) == score >= threshold

\* lines 186 and 207: the iteration is not the last allowed one.
NotLast(i, max) == i < max

\* line 207
TailStatusSwapped(i, max) == IF NotLast(i, max) THEN "max_iterations" ELSE "refined"
TailStatus(i, max) == IF NotLast(i, max) THEN "refined" ELSE "max_iterations"

\* line 90: range(1, max_iterations + 1) holds the next iteration number.
LoopContinuesOneMore(i, max) == i + 1 <= max + 1
LoopContinues(i, max) == i + 1 <= max

\* lines 178-183: threshold met; break.
DecideSuccess ==
    /\ pc = "decide"
    /\ ThresholdMet(Val(overall_score), score_threshold)
    /\ LET r == [Val(iteration_result) EXCEPT !.status = "success", !.reason = "threshold_met"]
       IN  /\ iteration_result' = Some(r)
           /\ iterations' = Append(iterations, r)
    /\ pc' = "finish"
    /\ UNCHANGED << max_iterations, score_threshold, brand_kit_id, brand_kit_data,
                    iteration, current_prompt, best_ad, best_score, ad_path,
                    description, critique, overall_score, result, calls, cq_vars, cancel, api_vars, approval_vars >>

\* lines 186, 206-208 on the last allowed iteration: no refinement, the record
\* is appended with the status of line 207 and the for loop moves on.
DecideExhausted ==
    /\ pc = "decide"
    /\ ~ThresholdMet(Val(overall_score), score_threshold)
    /\ ~NotLast(iteration, max_iterations)
    /\ LET r == [Val(iteration_result) EXCEPT
                    !.status = TailStatus(iteration, max_iterations)]
       IN  /\ iteration_result' = Some(r)
           /\ iterations' = Append(iterations, r)
    /\ IF LoopContinues(iteration, max_iterations)
       THEN iteration' = iteration + 1 /\ pc' = "generate"
       ELSE iteration' = iteration /\ pc' = "finish"
    /\ UNCHANGED << max_iterations, score_threshold, brand_kit_id, brand_kit_data,
                    current_prompt, best_ad, best_score, ad_path,
                    description, critique, overall_score, result, calls, cq_vars, cancel, api_vars, approval_vars >>

\* lines 186-187: below the threshold with iterations left.
DecideRefineSkipsRefinement ==
    /\ pc = "decide"
    /\ ~ThresholdMet(Val(overall_score), score_threshold)
    /\ NotLast(iteration, max_iterations)
    /\ LET r == [Val(iteration_result) EXCEPT !.status = "refined"]
       IN  /\ iteration_result' = Some(r)
           /\ iterations' = Append(iterations, r)
    /\ iteration' = iteration + 1
    /\ pc' = "generate"
    /\ UNCHANGED << max_iterations, score_threshold, brand_kit_id, brand_kit_data,
                    current_prompt, best_ad, best_score, ad_path, description,
                    critique, overall_score, result, calls, cq_vars, cancel, api_vars, approval_vars >>
DecideRefine ==
    /\ pc = "decide"
    /\ ~ThresholdMet(Val(overall_score), score_threshold)
    /\ NotLast(iteration, max_iterations)
    /\ pc' = "refine"
    /\ UNCHANGED << max_iterations, score_threshold, brand_kit_id, brand_kit_data,
                    iteration, iterations, iteration_result, current_prompt,
                    best_ad, best_score, ad_path, description, critique,
                    overall_score, result, calls, cq_vars, cancel, api_vars, approval_vars >>

\* line 199: the prompt of the next iteration.
NextPrompt(refinement, prompt) ==
    IF IsSome(refinement.improved_prompt) THEN Val(refinement.improved_prompt) ELSE prompt

\* Step 4, lines 188-208: the agent is called with the locals `critique` and
\* `description`; while either is unbound, evaluating the call raises
\* NameError, which the except of line 202 records.  The record is appended
\* with the status of line 207 and the for loop moves on.
Refine ==
    /\ pc = "refine"
    /\ IF IsSome(critique) /\ IsSome(description)
       THEN \E out \in RefinementOutcomes(current_prompt, Val(critique)) :
              LET refinement == [source |-> out.source,
                                 improved_prompt |-> out.improved_prompt,
                                 focus_areas |-> out.focus_areas,
                                 critique_id |-> Val(critique).critique_id,
                                 description_of |-> Val(description).iteration]
                  r == [Val(iteration_result) EXCEPT !.refinement = Some(refinement),
                                                     !.status = TailStatus(iteration, max_iterations)]
              IN  /\ current_prompt' = NextPrompt(out, current_prompt)
                  /\ iteration_result' = Some(r)
                  /\ iterations' = Append(iterations, r)
       ELSE LET r == [Val(iteration_result) EXCEPT !.refinement_error = TRUE,
                                                   !.status = TailStatus(iteration, max_iterations)]
            IN  /\ current_prompt' = current_prompt
                /\ iteration_result' = Some(r)
                /\ iterations' = Append(iterations, r)
    /\ IF LoopContinues(iteration, max_iterations)
       THEN iteration' = iteration + 1 /\ pc' = "generate"
       ELSE iteration' = iteration /\ pc' = "finish"
    /\ UNCHANGED << max_iterations, score_threshold, brand_kit_id, brand_kit_data,
                    best_ad, best_score, ad_path, description, critique,
                    overall_score, result, calls, cq_vars, cancel, api_vars, approval_vars >>

\* lines 213-231: the returned dict.
Finish ==
    /\ pc = "finish"
    /\ result' = Some([success |-> IsSome(best_ad),
                       iterations_count |-> Len(iterations),
                       iterations |-> iterations,
                       best_ad |-> best_ad,
                       final_score |-> best_score,
                       threshold_met |-> ThresholdMet(best_score, score_threshold)])
    /\ pc' = "done"
    /\ UNCHANGED << max_iterations, score_threshold, brand_kit_id, brand_kit_data,
                    iteration, iterations, iteration_result, current_prompt,
                    best_ad, best_score, ad_path, description, critique,
                    overall_score, calls, cq_vars, cancel, api_vars, approval_vars >>

Next ==
    \/ GenerateOk
    \/ GenerateFailed
    \/ GenerateError
    \/ DescribeOk
    \/ DescribeError
    \/ CritiqueStep
    \/ DecideSuccess
    \/ DecideExhausted
    \/ DecideRefine
    \/ Refine
    \/ Finish

Spec == Init /\ [][Next]_vars

(***************************************************************************)
(* Pending calls.  Lines 114, 139, 148 and 189 call the generation service *)
(* and the three oracles without a timeout (no wait_for, no timeout        *)
(* argument, no deadline anywhere in the code), so nothing but the callee  *)
(* ends a pending call: the actions in which a call returns or raises are  *)
(* not fair.  What the orchestrator does on its own is: the request the    *)
(* schema rejects before the service is called, the decision, the          *)
(* refinement step that fails on an unbound local before the agent is      *)
(* called, and the building of the result.                                 *)
(***************************************************************************)
RequestRejected == GenerateError /\ ~RequestIsValid
RefineUnbound == Refine /\ ~(IsSome(critique) /\ IsSome(description))

SpecLive ==
    /\ Init /\ [][Next]_vars
    /\ WF_vars(RequestRejected)
    /\ WF_vars(DecideSuccess)
    /\ WF_vars(DecideExhausted)
    /\ WF_vars(DecideRefine)
    /\ WF_vars(RefineUnbound)
    /\ WF_vars(Finish)

\* the same run when every pending call ends
SpecResponsive == Init /\ [][Next]_vars /\ WF_vars(Next)

(***************************************************************************)
(* Cancellation.  The caller of generate_and_refine may ask for the        *)
(* cancellation of the task that runs it at any moment before the result   *)
(* is built.  The coroutine never reads a cancellation flag and none of    *)
(* its awaits (lines 114 and 148) suspends: generate_ad and critique_ad    *)
(* make blocking calls only, so no CancelledError is ever thrown into the  *)
(* run.  The request is remembered with the place the run stood at and     *)
(* what it had found by then.                                              *)
(***************************************************************************)
Steps == {"generate", "describe", "critique", "decide", "refine"}

Cancel ==
    /\ pc \in Steps
    /\ cancel = None
    /\ cancel' = Some([iteration |-> iteration, pc |-> pc,
                       best_ad |-> best_ad, best_score |-> best_score,
                       iterations |-> iterations])
    /\ UNCHANGED << max_iterations, score_threshold, brand_kit_id, brand_kit_data,
                    pc, iteration, iterations, iteration_result, current_prompt,
                    best_ad, best_score, ad_path, description, critique,
                    overall_score, result, calls, cq_vars, api_vars, approval_vars >>

NextCancel ==
    \/ Next
    \/ Cancel

SpecCancel == Init /\ [][NextCancel]_vars

(***************************************************************************)
(* One critique of one image: the inputs of _compile_critique drawn from   *)
(* bounded sets, and the call.                                             *)
(***************************************************************************)
NoColourKit == [brand_id |-> "b2", has_colors |-> FALSE]

\* brand kit and what _calculate_brand_match makes of the image
BrandCases ==
    { [kit |-> None, raw_match |-> H(70)],
      [kit |-> Some(NoColourKit), raw_match |-> H(95)],
      [kit |-> Some(TheBrandKit), raw_match |-> H(70)],
      [kit |-> Some(TheBrandKit), raw_match |-> H(95)] }

\* image_analysis.py: VisualAnalysis of the image
VisualCases ==
    { [sharpness |-> sc[1], composition |-> sc[2], has_watermark |-> w] :
        sc \in { <<H(60), H(60)>>, <<H(95), H(95)>>, <<H(45), H(60)>> },
        w \in BOOLEAN }

\* the oracle payload: scores and confidences, absent or in hundredths
ScorePayloads ==
    { [brand_alignment |-> Dim(bs, bc),
       visual_quality |-> Dim(vs, vc),
       message_clarity |-> Dim(cs, cc),
       safety_ethics |-> Dim(ss, sc),
       overall_confidence |-> oc,
       detected_elements |-> OracleElements] :
        bs \in {Absent, H(70), H(95)}, bc \in {Absent, H(60), H(80)},
        vs \in {Absent, H(60), H(95)}, vc \in {Absent, H(80)},
        cs \in {Absent, H(70), H(95)}, cc \in {H(60), H(80)},
        ss \in {Absent, H(90), H(120)}, sc \in {Absent, H(80)},
        oc \in {Absent, M(649), H(65), H(90)} }

\* the same payload with one issue string in each dimension
WithIssues(p) ==
    [p EXCEPT !.brand_alignment = WithIssue(@, "brand_alignment"),
              !.visual_quality = WithIssue(@, "visual_quality"),
              !.message_clarity = WithIssue(@, "message_clarity"),
              !.safety_ethics = WithIssue(@, "safety_ethics")]

OraclePayloads == ScorePayloads \cup { WithIssues(p) : p \in ScorePayloads }

\* what a call of the critique oracle can do
OracleOutcomes ==
    { Json(p) : p \in OraclePayloads } \cup OracleFailures \cup { JsonNotObject }

\* what a call of the description oracle can do
DescribeOutcomes == {"json", "json_not_object", "not_json", "raised", "no_model"}

OrchIdle ==
    /\ max_iterations = 1 /\ score_threshold = 0
    /\ brand_kit_id = None /\ brand_kit_data = None
    /\ pc = "idle" /\ iteration = 1 /\ iterations = << >>
    /\ iteration_result = None /\ current_prompt = SeedPrompt
    /\ best_ad = None /\ best_score = 0 /\ ad_path = None
    /\ description = None /\ critique = None /\ overall_score = None
    /\ result = None /\ calls = << >> /\ cancel = None

InitCritique ==
    /\ OrchIdle
    /\ \/ /\ cq_pc = "input"
          /\ \E b \in BrandCases, v \in VisualCases, o \in OracleOutcomes :
                cq_in = Some([brand_kit |-> b.kit, raw_match |-> b.raw_match,
                              visual_analysis |-> v, oracle |-> o])
       \/ /\ cq_pc = "describe_input"
          /\ \E o \in DescribeOutcomes, readable \in BOOLEAN :
                cq_in = Some([oracle |-> o, image_readable |-> readable])
    /\ cq_ai = None
    /\ cq_out = None
    /\ ApiIdle
    /\ ApprovalIdle

\* critique_ad, lines 67-84, on the input.
Compile ==
    /\ cq_pc = "input"
    /\ cq_ai' = AiCritique(Val(cq_in))
    /\ cq_out' = CritiqueAd(1, Val(cq_in).brand_kit, Val(cq_in))
    /\ cq_pc' = IF IsSome(cq_out') THEN "compiled" ELSE "raised"
    /\ UNCHANGED << cq_in, orch_vars, api_vars, approval_vars >>

\* describe_ad, lines 32-63, on the input: it returns a description.
Describe ==
    /\ cq_pc = "describe_input"
    /\ cq_out' = Some([source |-> DescribeAd(Val(cq_in).oracle, Val(cq_in).image_readable)])
    /\ cq_pc' = "described"
    /\ UNCHANGED << cq_in, cq_ai, orch_vars, api_vars, approval_vars >>

NextCritique ==
    \/ Compile
    \/ Describe

SpecCritique == InitCritique /\ [][NextCritique]_vars

(***************************************************************************)
(* api/critique.py and api/multi_agent.py: the handlers of critique_ad,    *)
(* batch_critique and generate_and_refine_ad, one request each.            *)
(***************************************************************************)
\* the most files of one batch
MaxFiles == 3

\* brand_service.py: the brand kits on disk
BrandStore == {TheBrandKit, NoColourKit}

\* brand_service.py, get_brand_kit, lines 37-50: the kit of the file named
\* after brand_id, None when there is no such file
GetBrandKit(brand_id) ==
    IF \E k \in BrandStore : k.brand_id = brand_id
    THEN Some(CHOOSE k \in BrandStore : k.brand_id = brand_id)
    ELSE None

\* critique.py lines 54-56 and 102-104, multi_agent.py lines 68-70: the
\* lookup is made when the request names a brand
BrandKitOf(brand_id) == IF IsSome(brand_id) THEN GetBrandKit(Val(brand_id)) ELSE None

\* the brand ids requests name: none, one the store holds, one it does not
RequestedBrandIds == {None, Some("b1"), Some("b9")}

\* an uploaded file: its name, whether it is an image (its content type says
\* so and the analyzer can load it) and the level of its critique inputs
Uploads ==
    { [filename |-> f, is_image |-> img, level |-> x] :
        f \in {"a.png", "b.png"}, img \in BOOLEAN, x \in {80, 120} }

\* critique_engine.critique_ad on an upload: image_analysis.py line 29 raises
\* ValueError on a file that is no image; a level of 120 is an oracle score
\* outside [0,1], on which the compilation raises.  None: the call raised.
CritiqueOfUpload(critique_id, brand_kit, file) ==
    IF ~file.is_image THEN None
    ELSE CritiqueAd(critique_id, brand_kit, UniformInput(file.level))

\* schemas.py lines 38-62: the fields AdCritique requires
AdCritiqueRequired ==
    {"critique_id", "ad_url", "brand_alignment", "visual_quality", "message_clarity",
     "safety_ethics", "overall_score", "overall_level", "ready_to_deploy"}

\* critique.py line 21, response_model=AdCritique: the returned dict is
\* validated against the model before it is sent
ConformsToAdCritique(c) == AdCritiqueRequired \subseteq DOMAIN c

\* critique.py line 113, critique.dict(): critique_ad returns the plain dict
\* critique_result (critique_engine.py lines 596-659), and a dict has no
\* attribute 'dict', so the call raises AttributeError whatever the critique.
\* None: the call raised.
CritiqueDict(c) == None

\* multi_agent.py lines 87-95: the keyword arguments of the call
PassedKeywords ==
    {"prompt", "brand_kit_id", "aspect_ratio", "media_type", "duration",
     "include_logo", "brand_kit_data"}

\* multi_agent_orchestrator.py lines 60-67: the parameters of
\* generate_and_refine (it takes no **kwargs)
AcceptedKeywords ==
    {"prompt", "brand_kit_id", "aspect_ratio", "include_logo", "brand_kit_data"}

\* a call binds when every keyword passed is a parameter; else TypeError
CallBinds(passed, accepted) == passed \subseteq accepted

\* history: a critique or a workflow run started for a request
Ran(op, filename, brand_id, brand_kit) ==
    [op |-> op, filename |-> filename, brand_id |-> brand_id, brand_kit |-> brand_kit]

\* a response: an HTTP status with a detail, or a body
Response(status_code, detail) ==
    [status_code |-> status_code, detail |-> detail, critique |-> None,
     results |-> << >>, total |-> 0, successful |-> 0]

Request(endpoint, brand_id, files, max, threshold) ==
    [endpoint |-> endpoint, brand_id |-> brand_id, files |-> files,
     max_iterations |-> max, score_threshold |-> threshold]

CritiqueRequests ==
    { Request("critique_ad", b, << f >>, 1, 0) : b \in RequestedBrandIds, f \in Uploads }

BatchRequests ==
    { Request("batch_critique", b, fs, 1, 0) :
        b \in RequestedBrandIds, fs \in UNION { [1..n -> Uploads] : n \in 1..MaxFiles } }

\* MultiAgentRequest, multi_agent.py lines 26-35
GenerateRequests ==
    { Request("generate_and_refine", b, << >>, m, t) :
        b \in RequestedBrandIds, m \in 1..MaxIter, t \in Thresholds }

InitApi ==
    /\ OrchIdle
    /\ CqIdle
    /\ ApprovalIdle
    /\ api_pc = "request"
    /\ \E r \in CritiqueRequests \cup BatchRequests \cup GenerateRequests : api_req = Some(r)
    /\ api_resp = None
    /\ api_ran = << >>

\* critique.py, critique_ad, lines 21-71
CritiqueAdEndpoint ==
    /\ api_pc = "request"
    /\ Val(api_req).endpoint = "critique_ad"
    /\ LET req == Val(api_req)
           file == req.files[1]
           brand_kit == BrandKitOf(req.brand_id)
           c == CritiqueOfUpload(1, brand_kit, file)
       IN  IF ~file.is_image
           THEN /\ api_resp' = Some(Response(400, "not_an_image"))
                /\ api_ran' = api_ran
           ELSE /\ api_ran' = << Ran("critique", file.filename, req.brand_id, brand_kit) >>
                /\ api_resp' =
                     IF ~IsSome(c) THEN Some(Response(500, "critique_failed"))
                     ELSE IF ~ConformsToAdCritique(Val(c))
                     THEN Some(Response(500, "response_validation"))
                     ELSE Some([Response(200, "") EXCEPT !.critique = c])
    /\ api_pc' = "responded"
    /\ UNCHANGED << api_req, orch_vars, cq_vars, approval_vars >>

\* critique.py, batch_critique, lines 91-120: the entry of one file
BatchEntry(i, file, brand_kit) ==
    LET c == CritiqueOfUpload(i, brand_kit, file)
    IN  IF ~IsSome(c)
        THEN [filename |-> file.filename, has_critique |-> FALSE, critique |-> None,
              error |-> "critique_failed"]
        ELSE IF ~IsSome(CritiqueDict(Val(c)))
        THEN [filename |-> file.filename, has_critique |-> FALSE, critique |-> None,
              error |-> "no_attribute_dict"]
        ELSE [filename |-> file.filename, has_critique |-> TRUE,
              critique |-> CritiqueDict(Val(c)), error |-> ""]

\* critique.py, batch_critique, lines 83-122
BatchCritique ==
    /\ api_pc = "request"
    /\ Val(api_req).endpoint = "batch_critique"
    /\ LET req == Val(api_req)
           files == req.files
           brand_kit == BrandKitOf(req.brand_id)
           results == [i \in 1..Len(files) |-> BatchEntry(i, files[i], brand_kit)]
       IN  /\ api_ran' = [i \in 1..Len(files) |->
                            Ran("critique", files[i].filename, req.brand_id, brand_kit)]
           /\ api_resp' = Some([Response(200, "") EXCEPT
                                  !.results = results,
                                  !.total = Len(files),
                                  !.successful = Cardinality({ i \in 1..Len(results) :
                                                                 results[i].has_critique })])
    /\ api_pc' = "responded"
    /\ UNCHANGED << api_req, orch_vars, cq_vars, approval_vars >>

\* multi_agent.py, generate_and_refine_ad, lines 50-118: the 404 of lines
\* 71-75 is re-raised by line 111; the TypeError of a call that does not bind
\* is turned into a 500 by lines 113-118.
GenerateAndRefineAd ==
    /\ api_pc = "request"
    /\ Val(api_req).endpoint = "generate_and_refine"
    /\ LET req == Val(api_req)
           brand_kit_data_ == BrandKitOf(req.brand_id)
       IN  IF IsSome(req.brand_id) /\ ~IsSome(brand_kit_data_)
           THEN /\ api_resp' = Some(Response(404, "brand_not_found"))
                /\ api_ran' = api_ran
           ELSE IF ~CallBinds(PassedKeywords, AcceptedKeywords)
           THEN /\ api_resp' = Some(Response(500, "workflow_failed"))
                /\ api_ran' = api_ran
           ELSE /\ api_resp' = Some(Response(200, "workflow_result"))
                /\ api_ran' = << Ran("generate_and_refine", "", req.brand_id, brand_kit_data_) >>
    /\ api_pc' = "responded"
    /\ UNCHANGED << api_req, orch_vars, cq_vars, approval_vars >>

NextApi ==
    \/ CritiqueAdEndpoint
    \/ BatchCritique
    \/ GenerateAndRefineAd

SpecApi == InitApi /\ [][NextApi]_vars

(***************************************************************************)
(* api/approval.py: approve_ad and get_approval_status on the files of     *)
(* APPROVALS_DIR, one file per ad id.  Of an approval record the model     *)
(* keeps ad_id, decision and status; feedback, approved_by and timestamp   *)
(* are stored with them and read by nothing.                               *)
(***************************************************************************)
\* the most calls one run of the approval endpoints makes
MaxCalls == 3

\* line 45: the decisions approve_ad accepts
Decisions == {"approve", "reject", "request_revision"}

\* the decisions callers send: the three above and one that is none of them
RequestedDecisions == Decisions \cup {"publish"}

\* _get_status, lines 115-122
GetStatusRejectsRevision(decision) ==
    IF decision = "approve" THEN "approved_for_deployment"
    ELSE IF decision \in {"reject", "request_revision"} THEN "rejected"
    ELSE "unknown"
GetStatus(decision) ==
    IF decision = "approve" THEN "approved_for_deployment"
    ELSE IF decision = "reject" THEN "rejected"
    ELSE IF decision = "request_revision" THEN "needs_revision"
    ELSE "unknown"

\* get_approval_status, lines 81-93: "pending" when the ad has no file, else
\* the status stored in its file
ApprovalStatus(store, ad_id) ==
    IF ~IsSome(store[ad_id]) THEN "pending" ELSE Val(store[ad_id]).status

InitApproval ==
    /\ OrchIdle
    /\ CqIdle
    /\ ApiIdle
    /\ ApprovalIdle

\* approve_ad, lines 34-74: an unknown decision is answered with 400 before
\* anything is written; otherwise the ad's file is overwritten.
ApproveAd ==
    /\ Len(approval_log) < MaxCalls
    /\ \E ad_id \in AdIds, decision \in RequestedDecisions :
          /\ approval_log' = Append(approval_log, [call |-> "approve_ad", ad_id |-> ad_id,
                                                   decision |-> decision])
          /\ IF decision \notin Decisions
             THEN /\ approval_resp' = Some([status_code |-> 400, ad_id |-> ad_id, status |-> ""])
                  /\ approvals' = approvals
             ELSE LET approval_data == [ad_id |-> ad_id, decision |-> decision,
                                        status |-> GetStatus(decision)]
                  IN  /\ approvals' = [approvals EXCEPT ![ad_id] = Some(approval_data)]
                      /\ approval_resp' = Some([status_code |-> 200, ad_id |-> ad_id,
                                                status |-> approval_data.status])
    /\ UNCHANGED << orch_vars, cq_vars, api_vars >>

\* get_approval_status, lines 77-93
GetApprovalStatus ==
    /\ Len(approval_log) < MaxCalls
    /\ \E ad_id \in AdIds :
          /\ approval_log' = Append(approval_log, [call |-> "get_approval_status",
                                                   ad_id |-> ad_id, decision |-> ""])
          /\ approval_resp' = Some([status_code |-> 200, ad_id |-> ad_id,
                                    status |-> ApprovalStatus(approvals, ad_id)])
    /\ approvals' = approvals
    /\ UNCHANGED << orch_vars, cq_vars, api_vars >>

NextApproval ==
    \/ ApproveAd
    \/ GetApprovalStatus

SpecApproval == InitApproval /\ [][NextApproval]_vars

(***************************************************************************)
(* Properties.                                                             *)
(***************************************************************************)

Max(S) == IF S = {} THEN 0 ELSE CHOOSE m \in S : \A x \in S : x <= m
Min(S) == CHOOSE m \in S : \A x \in S : m <= x

\* The iteration records whose critique step is over: the appended ones and,
\* between the critique and the append, the record being built.
Records ==
    IF pc \in {"decide", "refine"} THEN Append(iterations, Val(iteration_result))
    ELSE iterations

Scored(recs) == { i \in 1..Len(recs) : IsSome(recs[i].overall_score) }
ScoreOf(recs, i) == Val(recs[i].overall_score)
RecordedScores(recs) == { ScoreOf(recs, i) : i \in Scored(recs) }

\* The highest-scoring iteration of recs, the earliest one on a tie; None when
\* no iteration scored above 0.
BestCandidate(recs) ==
    LET m == Max(RecordedScores(recs))
    IN  IF m > 0
        THEN Some(Min({ recs[i].iteration : i \in { j \in Scored(recs) : ScoreOf(recs, j) = m } }))
        ELSE None

BestIteration == IF IsSome(best_ad) THEN Some(Val(best_ad).iteration) ELSE None

\* C1: iteration budget.  When every generation of a run succeeded and every
\* critique returned a score below score_threshold, the finished run holds
\* exactly max_iterations iteration records, the last one with status
\* max_iterations, and threshold_met is false; no run passes iteration
\* max_iterations or holds more than max_iterations records.
C1_IterationBudget ==
    /\ iteration <= max_iterations
    /\ Len(iterations) <= max_iterations
    /\ (/\ pc = "done"
        /\ \A i \in 1..Len(calls) :
              /\ calls[i].generated = "ok"
              /\ calls[i].critiqued = "ok"
              /\ calls[i].returned < score_threshold)
       => /\ Len(Val(result).iterations) = max_iterations
          /\ Val(result).iterations_count = max_iterations
          /\ Val(result).iterations[max_iterations].status = "max_iterations"
          /\ Val(result).threshold_met = FALSE

\* C1 witness: N = 3, every critique 0.40, threshold 0.75, run finished.
C1_Witness ==
    /\ pc = "done"
    /\ max_iterations = 3
    /\ score_threshold = H(75)
    /\ Len(calls) = 3
    /\ \A i \in 1..3 : calls[i].generated = "ok" /\ calls[i].returned = H(40)

C4_DecisionRule ==
    \A i \in Scored(iterations) :
        LET r == iterations[i]
            last == i = Len(iterations)
        IN  IF ScoreOf(iterations, i) >= score_threshold
            THEN r.status = "success" /\ last /\ pc \in {"finish", "done"}
            ELSE IF r.iteration = max_iterations
            THEN r.status = "max_iterations" /\ last /\ pc \in {"finish", "done"}
            ELSE /\ IsSome(r.refinement)
                 /\ IsSome(Val(r.refinement).improved_prompt) =>
                       Val(Val(r.refinement).improved_prompt)
                         = (IF last THEN current_prompt ELSE iterations[i + 1].prompt)
                 /\ IF last THEN iteration = r.iteration + 1 /\ pc \notin {"finish", "done"}
                    ELSE iterations[i + 1].iteration = r.iteration + 1

C6_CritiqueFailure ==
    /\ best_score = Max({ calls[i].returned : i \in { j \in 1..Len(calls) : calls[j].critiqued = "ok" } })
    /\ \A i \in 1..Len(calls) :
          calls[i].critiqued = "raised" =>
              /\ BestIteration # Some(i)
              /\ Len(Records) >= i
              /\ Records[i].overall_score = Some(0)
              /\ Records[i].critique_error
              /\ Records[i].status \in {"", "success", "refined", "max_iterations"}
              /\ Records[i].status = "refined" => iteration > i
              /\ pc = "done" => Records[i].status # ""

\* C6 witness: a finished run whose second critique raised and whose best_ad
\* is the first iteration.
C6_Witness ==
    /\ pc = "done"
    /\ Len(calls) = 3
    /\ calls[2].critiqued = "raised"
    /\ calls[3].critiqued = "ok"
    /\ BestIteration = Some(1)

C8_OverallScore ==
    cq_pc = "compiled" =>
        LET c == Val(cq_out)
        IN  /\ 100 * c.overall_score
                 = 30 * c.scores.brand_alignment + 25 * c.scores.visual_quality
                   + 25 * c.scores.message_clarity + 20 * c.scores.safety
            /\ 0 <= c.overall_score /\ c.overall_score <= One

\* C8 witness: a critique with four different dimension scores, 0.70, 0.95,
\* 0.50 and 0.90, whose overall score is 0.7525.
C8_Witness ==
    /\ cq_pc = "compiled"
    /\ Val(cq_out).scores = [brand_alignment |-> H(70), visual_quality |-> H(95),
                             message_clarity |-> H(50), safety |-> H(90)]
    /\ Val(cq_out).overall_score = (7525 * One) \div 10000

\* C9: deployment gate.  ready_to_deploy is true exactly when brand >= 0.70,
\* quality >= 0.60, safety >= 0.90 and clarity >= 0.70 on the final scores.
C9_DeploymentGate ==
    cq_pc = "compiled" =>
        LET c == Val(cq_out)
        IN  c.ready_to_deploy <=>
               /\ c.scores.brand_alignment >= H(70)
               /\ c.scores.visual_quality >= H(60)
               /\ c.scores.safety >= H(90)
               /\ c.scores.message_clarity >= H(70)

\* C9 witness: brand = visual = clarity = 0.95 and safety = 0.50 is not ready
\* to deploy, with an overall score of 0.86.
C9_Witness ==
    /\ cq_pc = "compiled"
    /\ Val(cq_out).scores = [brand_alignment |-> H(95), visual_quality |-> H(95),
                             message_clarity |-> H(95), safety |-> H(50)]
    /\ Val(cq_out).overall_score = H(86)
    /\ ~Val(cq_out).ready_to_deploy

\* C10: confidence gating.  needs_manual_review is true exactly when
\* overall_confidence < 0.65, whatever the scores.
C10_ConfidenceGating ==
    cq_pc = "compiled" =>
        (Val(cq_out).needs_manual_review <=> Val(cq_out).confidence_scores.overall < H(65))

\* C10 witness: a critique with an overall score of 0.94 and an overall
\* confidence of 0.649 is flagged for manual review.
C10_Witness ==
    /\ cq_pc = "compiled"
    /\ Val(cq_out).overall_score = H(94)
    /\ Val(cq_out).confidence_scores.overall = M(649)
    /\ Val(cq_out).needs_manual_review

\* The names of the four dimensions in the payload, and an absent score or
\* confidence read as 0.5.
PayloadDims == {"brand_alignment", "visual_quality", "message_clarity", "safety_ethics"}
OrHalf(v) == IF v = Absent THEN H(50) ELSE v
Elems(seq) == { seq[i] : i \in 1..Len(seq) }

\* C11: oracle fallback on an unparsable response.  When the oracle's text is
\* not JSON, the critique has ai_analysis_available = false and the
\* visual_quality score of the substituted payload is the mean of the image's
\* sharpness and composition.  (VisualAnalysis holds no contrast, so the
\* message_clarity half of the claim has no metric to be compared with.)
C11_UnparsableFallback ==
    (cq_pc = "compiled" /\ Val(cq_in).oracle.kind = "not_json") =>
        /\ Val(cq_out).detected_elements.ai_analysis_available = "false"
        /\ 2 * Val(cq_ai).visual_quality.score
             = Val(cq_in).visual_analysis.sharpness + Val(cq_in).visual_analysis.composition

\* C12: oracle errors do not propagate.  When the critique oracle is not
\* configured, raises or answers with text that is not JSON, critique_ad
\* returns a critique compiled from the fallback payload (brand 0.5, safety
\* 0.7, no confidences, ai_analysis_available false); when the description
\* oracle is not configured or raises, describe_ad returns the description of
\* _fallback_description.
C12_OracleErrorsContained ==
    /\ (cq_pc \in {"compiled", "raised"}
        /\ Val(cq_in).oracle.kind \in {"no_model", "raised", "not_json"}) =>
           /\ cq_pc = "compiled"
           /\ IsSome(cq_ai)
           /\ Val(cq_ai).brand_alignment.score = H(50)
           /\ Val(cq_ai).safety_ethics.score = H(70)
           /\ Val(cq_ai).overall_confidence = Absent
           /\ \A d \in PayloadDims : Val(cq_ai)[d].confidence = Absent
           /\ Val(cq_ai).detected_elements.ai_analysis_available = "false"
           /\ Val(cq_out).detected_elements.ai_analysis_available = "false"
           /\ Val(cq_out).scores.safety = H(70)
           /\ Val(cq_out).scores.message_clarity = Val(cq_ai).message_clarity.score
           /\ 3 * Val(cq_out).scores.visual_quality
                = Val(cq_ai).visual_quality.score + Val(cq_in).visual_analysis.sharpness
                  + Val(cq_in).visual_analysis.composition
           /\ Val(cq_out).confidence_scores.overall = H(50)
    /\ (cq_pc = "described" /\ Val(cq_in).oracle \in {"no_model", "raised"}) =>
           Val(cq_out).source \in {"fallback", "error"}

\* C12 witness: the oracle call raised on a watermarked image with sharpness
\* and composition 0.95, and the critique came out with safety 0.70 and
\* visual quality 0.95.
C12_Witness ==
    /\ cq_pc = "compiled"
    /\ Val(cq_in).oracle.kind = "raised"
    /\ Val(cq_in).visual_analysis.has_watermark
    /\ Val(cq_out).scores.safety = H(70)
    /\ Val(cq_out).scores.visual_quality = H(95)

\* C13: overall confidence.  overall_confidence is the payload's
\* overall_confidence when it has one, otherwise the unweighted mean of the
\* four dimension confidences, an absent one counting as 0.5; and
\* low_confidence_areas lists, once each, exactly the dimensions whose own
\* confidence is below 0.70.
C13_OverallConfidence ==
    cq_pc = "compiled" =>
        LET ai == Val(cq_ai)
            c == Val(cq_out)
        IN  /\ IF ai.overall_confidence # Absent
               THEN c.confidence_scores.overall = ai.overall_confidence
               ELSE 4 * c.confidence_scores.overall
                      = OrHalf(ai.brand_alignment.confidence) + OrHalf(ai.visual_quality.confidence)
                        + OrHalf(ai.message_clarity.confidence) + OrHalf(ai.safety_ethics.confidence)
            /\ Elems(c.low_confidence_areas)
                 = { d \in PayloadDims : OrHalf(ai[d].confidence) < H(70) }
            /\ Len(c.low_confidence_areas) = Cardinality(Elems(c.low_confidence_areas))

\* C13 witness: no overall_confidence in the payload, confidences 0.60, absent,
\* 0.60 and 0.80: the mean is 0.625 and three dimensions are listed.
C13_Witness ==
    /\ cq_pc = "compiled"
    /\ Val(cq_ai).overall_confidence = Absent
    /\ Val(cq_ai).visual_quality.confidence = Absent
    /\ Val(cq_ai).safety_ethics.confidence = H(80)
    /\ Val(cq_out).confidence_scores.overall = M(625)
    /\ Val(cq_out).low_confidence_areas = <<"brand_alignment", "visual_quality", "message_clarity">>

\* the payload with an overall_confidence of 0.90
Confident(ai) == [ai EXCEPT !.overall_confidence = H(90)]

\* C14: manual-review warning.  The issue list of a compiled critique starts
\* with the low-confidence warning exactly when needs_manual_review is true,
\* and the flag is no failure status: the critique of the same inputs with a
\* high overall confidence has the same approval_status, ready_to_deploy,
\* scores and overall_score, and the same issues after the warning.
C14_ManualReviewWarning ==
    cq_pc = "compiled" =>
        LET c == Val(cq_out)
            inp == Val(cq_in)
            calm == Val(CompileCritique(1, inp.brand_kit, inp.visual_analysis,
                                        AnalyzeColors(inp.raw_match, inp.brand_kit),
                                        Confident(Val(cq_ai))))
        IN  /\ (c.issues # << >> /\ c.issues[1].kind = "low_confidence") <=> c.needs_manual_review
            /\ \A i \in 2..Len(c.issues) : c.issues[i].kind # "low_confidence"
            /\ ~calm.needs_manual_review
            /\ c.approval_status = calm.approval_status
            /\ c.ready_to_deploy = calm.ready_to_deploy
            /\ c.scores = calm.scores
            /\ c.overall_score = calm.overall_score
            /\ c.issues = (IF c.needs_manual_review THEN << c.issues[1] >> ELSE << >>) \o calm.issues

\* C14 witness: a critique flagged for manual review whose issue list holds the
\* warning and four more issues, and which is ready to deploy and approved.
C14_Witness ==
    /\ cq_pc = "compiled"
    /\ Val(cq_out).needs_manual_review
    /\ Len(Val(cq_out).issues) = 5
    /\ Val(cq_out).issues[1].kind = "low_confidence"
    /\ Val(cq_out).ready_to_deploy
    /\ Val(cq_out).approval_status = "approved"

\* C15: brand blending.  With a brand kit the final brand_alignment score is
\* the mean of the oracle's brand score (0.5 when absent) and the colour
\* analysis's brand_color_match; without one it is the oracle's brand score;
\* and brand_color_match is 0 when no brand colours are given.
C15_BrandBlending ==
    cq_pc = "compiled" =>
        LET c == Val(cq_out)
            kit == Val(cq_in).brand_kit
            oracle_score == OrHalf(Val(cq_ai).brand_alignment.score)
            match == c.detected_elements.color_analysis.brand_color_match
        IN  /\ IsSome(kit) => 2 * c.scores.brand_alignment = oracle_score + match
            /\ ~IsSome(kit) => c.scores.brand_alignment = oracle_score
            /\ (~IsSome(kit) \/ ~Val(kit).has_colors) => match = 0
            /\ (IsSome(kit) /\ Val(kit).has_colors) => match = Val(cq_in).raw_match

\* C15 witness: a brand kit without colours and an oracle brand score of 0.70
\* give a final brand score of 0.35.
C15_Witness ==
    /\ cq_pc = "compiled"
    /\ Val(cq_in).brand_kit = Some(NoColourKit)
    /\ Val(cq_ai).brand_alignment.score = H(70)
    /\ Val(cq_out).scores.brand_alignment = H(35)

\* C16: visual blending.  The final visual_quality score is the mean of the
\* oracle's visual score (0.5 when absent), sharpness and composition, and the
\* visual_quality issues are the oracle's, followed by 'Watermark detected'
\* exactly when has_watermark is true.
C16_VisualBlending ==
    cq_pc = "compiled" =>
        LET c == Val(cq_out)
            va == Val(cq_in).visual_analysis
            given == Val(cq_ai).visual_quality.issues
            issues == c.feedback.visual_quality.issues
        IN  /\ 3 * c.scores.visual_quality
                 = OrHalf(Val(cq_ai).visual_quality.score) + va.sharpness + va.composition
            /\ (\E i \in 1..Len(issues) : issues[i].kind = "watermark") <=> va.has_watermark
            /\ issues = IF va.has_watermark
                        THEN Append(given, Issue("watermark", "visual_quality"))
                        ELSE given

\* C16 witness: no oracle visual score, sharpness 0.45, composition 0.60 and a
\* watermark: visual quality 0.5167 and the watermark after the oracle's issue.
C16_Witness ==
    /\ cq_pc = "compiled"
    /\ Val(cq_in).oracle.kind = "json"
    /\ Val(cq_ai).visual_quality.score = Absent
    /\ Val(cq_in).visual_analysis.sharpness = H(45)
    /\ Val(cq_in).visual_analysis.has_watermark
    /\ 3 * Val(cq_out).scores.visual_quality = H(155)
    /\ Len(Val(cq_out).feedback.visual_quality.issues) = 2
    /\ Val(cq_out).feedback.visual_quality.issues[2].kind = "watermark"

\* The keys of critique_result["scores"] and the directive phrase of each.
ScoreDims == {"brand_alignment", "visual_quality", "message_clarity", "safety"}
DirectiveOf(d) ==
    IF d = "brand_alignment" THEN "brand"
    ELSE IF d = "visual_quality" THEN "visual"
    ELSE IF d = "message_clarity" THEN "clarity"
    ELSE "safety"

\* C17: rule-based refinement.  After a refinement by the fallback rules the
\* improved prompt is the original prompt followed by the directive phrases of
\* exactly the dimensions whose score in the critique is below 0.70, and
\* focus_areas names exactly those dimensions.
C17_RuleBasedRefinement ==
    (/\ pc = "generate"
     /\ iteration > 1
     /\ IsSome(iterations[iteration - 1].refinement)
     /\ Val(iterations[iteration - 1].refinement).source = "fallback_rules") =>
        LET r == iterations[iteration - 1]
            ref == Val(r.refinement)
            improved == Val(ref.improved_prompt)
            low == { d \in ScoreDims : Val(critique).scores[d] < H(70) }
        IN  /\ Len(improved) >= Len(r.prompt)
            /\ SubSeq(improved, 1, Len(r.prompt)) = r.prompt
            /\ Elems(SubSeq(improved, Len(r.prompt) + 1, Len(improved)))
                 = { DirectiveOf(d) : d \in low }
            /\ Elems(ref.focus_areas) = low
            /\ current_prompt = improved

\* The place of a step in a run: the steps of an iteration in the order of
\* the code, iteration after iteration.
StepRank(p) ==
    IF p = "generate" THEN 1
    ELSE IF p = "describe" THEN 2
    ELSE IF p = "critique" THEN 3
    ELSE IF p = "decide" THEN 4
    ELSE IF p = "refine" THEN 5
    ELSE IF p = "finish" THEN 6
    ELSE 7
Position(i, p) == 5 * i + StepRank(p)

\* C18: strict sequencing.  Every step of a run either moves to the next step
\* of the same iteration (generate, describe, critique, decide, refine), or
\* leaves the loop from the generation or the decision, or starts the
\* generation of the next iteration from the finished refinement step of this
\* one; then the result is built.  No step begins before the previous one
\* is over, and no step of an earlier iteration follows one of a later.
C18_StrictSequencing ==
    [][ \/ /\ iteration' = iteration
           /\ pc \in {"generate", "describe", "critique", "decide"}
           /\ StepRank(pc') = StepRank(pc) + 1
        \/ /\ iteration' = iteration
           /\ pc \in {"generate", "decide"}
           /\ pc' = "finish"
        \/ /\ iteration' = iteration + 1
           /\ pc = "refine"
           /\ pc' = "generate"
           /\ Len(iterations') = iteration
           /\ iterations'[iteration].iteration = iteration
        \/ /\ iteration' = iteration
           /\ pc = "finish"
           /\ pc' = "done" ]_vars

\* C18 witness: the generation of iteration 3 is about to start, after two
\* iterations that each ran a refinement.
C18_Witness ==
    /\ pc = "generate"
    /\ iteration = 3
    /\ Len(iterations) = 2
    /\ IsSome(iterations[1].refinement)
    /\ IsSome(iterations[2].refinement)
    /\ IsSome(Val(iterations[1].refinement).improved_prompt)
    /\ iterations[2].prompt = Val(Val(iterations[1].refinement).improved_prompt)

\* C19: no hang.  Every run eventually returns its result, whatever the
\* external calls do, a call that never responds included.
C19_NoHang == <>(pc = "done")

\* C20: cancellation.  Once the cancellation of a run is requested, the run
\* finishes at most the step it is in and then returns: it never stands two
\* steps further, it records no iteration after the one it was in, the
\* records it had are kept, and the returned best_ad and final_score are those
\* it had at the request (or those of the step it was finishing).
C20_Cancellation ==
    IsSome(cancel) =>
        LET k == Val(cancel)
        IN  /\ pc \in Steps => Position(iteration, pc) <= Position(k.iteration, k.pc) + 1
            /\ Len(iterations) <= k.iteration
            /\ SubSeq(iterations, 1, Len(k.iterations)) = k.iterations
            /\ pc = "done" =>
                  /\ Val(result).iterations = iterations
                  /\ \/ /\ Val(result).best_ad = k.best_ad
                        /\ Val(result).final_score = k.best_score
                     \/ /\ k.pc = "critique"
                        /\ IsSome(Val(result).best_ad)
                        /\ Val(Val(result).best_ad).iteration = k.iteration

C26_ThresholdImpliesCandidate ==
    IsSome(result) =>
        LET res == Val(result)
        IN  res.threshold_met =>
                /\ IsSome(res.best_ad)
                /\ res.success
                /\ \E i \in 1..Len(res.iterations) : res.iterations[i].status = "success"

\* C27: refinement uses the current iteration's inputs.  Every refinement
\* recorded in iteration i was computed from the critique and the description
\* produced in iteration i.
C27_RefinementInputs ==
    \A i \in 1..Len(iterations) :
        LET r == iterations[i]
        IN  IsSome(r.refinement) =>
                /\ Val(r.refinement).critique_id = r.iteration
                /\ Val(r.refinement).description_of = r.iteration

\* The statuses of lines 100, 130, 179 and 207.
C28_Statuses == {"refined", "success", "max_iterations", "generation_failed", "generation_error"}

\* C28: iteration history shape.  The appended records are numbered 1..n
\* consecutively with n <= max_iterations, every record before the last has
\* status "refined", status "max_iterations" occurs only on record number
\* max_iterations, and a returned result holds these records with
\* iterations_count = n, its last record having one of the closing statuses.
C28_HistoryShape ==
    LET n == Len(iterations)
    IN  /\ n <= max_iterations
        /\ \A i \in 1..n :
              /\ iterations[i].iteration = i
              /\ iterations[i].status \in C28_Statuses
              /\ i < n => iterations[i].status = "refined"
              /\ iterations[i].status = "max_iterations" => i = max_iterations
        /\ IsSome(result) =>
              /\ Val(result).iterations = iterations
              /\ Val(result).iterations_count = n
              /\ n >= 1 => iterations[n].status \in C28_Statuses \ {"refined"}

C28_Witness ==
    /\ IsSome(result)
    /\ max_iterations = MaxIter
    /\ Len(iterations) = MaxIter
    /\ \A i \in 1..(MaxIter - 1) : iterations[i].status = "refined"
    /\ iterations[MaxIter].status = "max_iterations"

\* the payloads _fallback_critique can return for the input: with the image
\* (lines 124-126) or without it (line 404)
C29_FallbackPayloads(inp) ==
    { FallbackCritique(None), FallbackCritique(Some(inp.visual_analysis)) }

\* C29: degraded critiques are never auto-approved.  A critique compiled from
\* the fallback payload is not ready to deploy, has approval_status "pending"
\* and needs manual review, for every image and brand kit; and every compiled
\* critique has approval_status "approved" exactly when ready_to_deploy is
\* true, "pending" otherwise.
C29_DegradedNeverApproved ==
    cq_pc = "compiled" =>
        LET c == Val(cq_out)
        IN  /\ c.approval_status = (IF c.ready_to_deploy THEN "approved" ELSE "pending")
            /\ Val(cq_ai) \in C29_FallbackPayloads(Val(cq_in)) =>
                  /\ ~c.ready_to_deploy
                  /\ c.approval_status = "pending"
                  /\ c.needs_manual_review

\* C29 witness: the oracle is not configured, the image is sharp (0.95) and
\* matches the brand kit's colours (0.95): the critique is compiled from the
\* fallback payload, pending and flagged, with brand 0.725 and quality 0.95.
C29_Witness ==
    /\ cq_pc = "compiled"
    /\ Val(cq_in).oracle.kind = "no_model"
    /\ Val(cq_ai) = FallbackCritique(Some(Val(cq_in).visual_analysis))
    /\ Val(cq_out).scores.brand_alignment = M(725)
    /\ Val(cq_out).scores.visual_quality = H(95)
    /\ ~Val(cq_out).ready_to_deploy
    /\ Val(cq_out).approval_status = "pending"
    /\ Val(cq_out).needs_manual_review

\* C30: the manual-review warning names a dimension.  Whenever a compiled
\* critique has needs_manual_review true, low_confidence_areas is not empty
\* and the warning at the head of the issue list lists these areas.
C30_WarningNamesDimension ==
    cq_pc = "compiled" =>
        LET c == Val(cq_out)
        IN  c.needs_manual_review =>
                /\ c.low_confidence_areas # << >>
                /\ c.issues # << >>
                /\ c.issues[1].kind = "low_confidence"
                /\ c.issues[1].areas = c.low_confidence_areas

\* the request being served names a brand id the store does not hold (and, at
\* the single-image endpoint, passes the content-type check)
C21_UnknownBrand ==
    /\ IsSome(Val(api_req).brand_id)
    /\ \A k \in BrandStore : k.brand_id # Val(Val(api_req).brand_id)
    /\ Val(api_req).endpoint = "critique_ad" => Val(api_req).files[1].is_image

\* C21: brand not found.  A request to critique_ad, batch_critique or
\* generate_and_refine_ad that names a brand id the brand store does not hold
\* is answered with a brand-not-found error, and no critique and no workflow
\* run is started for it.
C21_BrandNotFound ==
    (api_pc = "responded" /\ C21_UnknownBrand) =>
        /\ Val(api_resp).status_code = 404
        /\ Val(api_resp).detail = "brand_not_found"
        /\ api_ran = << >>

\* C22: generate-and-refine endpoint.  A valid request whose brand kit is
\* absent or found is answered with the result of the orchestrator's run, for
\* which the run was started, and never with a 500.
C22_GenerateAndRefineEndpoint ==
    (/\ api_pc = "responded"
     /\ Val(api_req).endpoint = "generate_and_refine"
     /\ (IsSome(Val(api_req).brand_id) =>
            \E k \in BrandStore : k.brand_id = Val(Val(api_req).brand_id))) =>
        /\ Val(api_resp).status_code = 200
        /\ Val(api_resp).detail = "workflow_result"
        /\ Len(api_ran) = 1
        /\ api_ran[1].op = "generate_and_refine"

\* the files of the batch whose critique critique_ad computes without error
C23_Computed ==
    { i \in 1..Len(Val(api_req).files) :
        IsSome(CritiqueOfUpload(i, BrandKitOf(Val(api_req).brand_id), Val(api_req).files[i])) }

\* C23: batch critique isolation.  The response to a batch has one result per
\* file in input order, a file whose critique fails has an error entry and
\* the others are still critiqued, total is the number of files, and
\* successful is the number of files whose critique was computed without
\* error, each of which has a critique entry.
C23_BatchIsolation ==
    (api_pc = "responded" /\ Val(api_req).endpoint = "batch_critique") =>
        LET files == Val(api_req).files
            resp == Val(api_resp)
        IN  /\ Len(resp.results) = Len(files)
            /\ Len(api_ran) = Len(files)
            /\ \A i \in 1..Len(files) :
                  /\ resp.results[i].filename = files[i].filename
                  /\ resp.results[i].has_critique <=> i \in C23_Computed
                  /\ resp.results[i].has_critique <=> resp.results[i].error = ""
            /\ resp.total = Len(files)
            /\ resp.successful = Cardinality(C23_Computed)

\* the positions in the log of the calls that recorded a decision for ad_id
C24_Recorded(ad_id) ==
    { i \in 1..Len(approval_log) :
        /\ approval_log[i].call = "approve_ad"
        /\ approval_log[i].ad_id = ad_id
        /\ approval_log[i].decision \in {"approve", "reject", "request_revision"} }

\* the status the decisions made so far give ad_id
C24_Expected(ad_id) ==
    IF C24_Recorded(ad_id) = {} THEN "pending"
    ELSE LET d == approval_log[Max(C24_Recorded(ad_id))].decision
         IN  IF d = "approve" THEN "approved_for_deployment"
             ELSE IF d = "reject" THEN "rejected"
             ELSE "needs_revision"

\* C24: approval workflow.  After any sequence of calls the status reported
\* for an ad is "pending" when no valid decision was recorded for it and
\* otherwise the status of its most recent valid decision; the stored
\* approvals are those of the valid decisions alone, and a call with another
\* decision is answered with an error.
C24_ApprovalWorkflow ==
    /\ \A ad_id \in AdIds :
          /\ ApprovalStatus(approvals, ad_id) = C24_Expected(ad_id)
          /\ IsSome(approvals[ad_id]) <=> C24_Recorded(ad_id) # {}
          /\ IsSome(approvals[ad_id]) =>
                Val(approvals[ad_id]).decision
                  = approval_log[Max(C24_Recorded(ad_id))].decision
    /\ approval_log # << >> =>
          LET last == approval_log[Len(approval_log)]
              resp == Val(approval_resp)
          IN  /\ resp.ad_id = last.ad_id
              /\ IF last.call = "approve_ad"
                      /\ last.decision \notin {"approve", "reject", "request_revision"}
                 THEN resp.status_code = 400
                 ELSE resp.status_code = 200 /\ resp.status = C24_Expected(last.ad_id)

\* C24 witness: ad1 was approved, then sent back for revision, then a call
\* with the decision "publish" was refused: ad1 reports needs_revision and ad2
\* is pending.
C24_Witness ==
    /\ Len(approval_log) = 3
    /\ approval_log[1] = [call |-> "approve_ad", ad_id |-> "ad1", decision |-> "approve"]
    /\ approval_log[2] = [call |-> "approve_ad", ad_id |-> "ad1", decision |-> "request_revision"]
    /\ approval_log[3] = [call |-> "approve_ad", ad_id |-> "ad1", decision |-> "publish"]
    /\ Val(approval_resp).status_code = 400
    /\ ApprovalStatus(approvals, "ad1") = "needs_revision"
    /\ ApprovalStatus(approvals, "ad2") = "pending"

====
